---- MODULE Spec2Model ----
(***************************************************************************)
(* Process lifecycle of src-tauri/src/main.rs: the builder chain of main() *)
(* (five plugin registrations, the setup hook, run + expect) and the hook  *)
(* body (debug-only devtools, window lookup, diagnostic script).           *)
(***************************************************************************)
EXTENDS Naturals, Sequences, FiniteSets, TLC

\* Number of windows other than "main" the application context may declare.
MaxOther == 1

OtherNames == <<"splashscreen", "settings", "about">>

OtherLabels == {OtherNames[k] : k \in 1..MaxOther}

MainLabel == "main"

Labels == {MainLabel} \cup OtherLabels

\* The five .plugin(...) calls of main(), in source order.
CodeOrder == <<"shell", "fs", "dialog", "http", "updater">>

Plugins == {CodeOrder[k] : k \in 1..Len(CodeOrder)}

\* Values window.location.protocol can take in the webview.
Protocols == {"tauri:", "http:", "https:"}

UnwrapMsg == "called Option::unwrap() on a None value"

ExpectMsg == "error while running tauri application"

VARIABLES
  debug,      \* cfg(debug_assertions) of the build
  config,     \* window labels declared by the generated context
  order,      \* the sequence of .plugin(...) calls of the builder chain
  pc,         \* position of the main thread
  plugins,    \* the builder's plugin store
  setupHook,  \* "none" | "installed" | "taken"
  windows,    \* the window registry of the running application
  window,     \* the local binding `window` inside the hook
  devtools,   \* labels of the windows on which open_devtools was called
  console,    \* console entries received, [win, args]
  evalResult, \* "none" | "Ok" | "Err": the value bound to `_`
  runResult,  \* "none" | "Ok" | "Err": the value .run(...) hands to .expect
  loop,       \* "none" | "running" | "stopped"
  status,     \* "none" | "success" | "abnormal"
  diag,       \* panic message, "" when none
  runCalls,   \* number of .run(...) calls
  hookCalls,  \* number of invocations of the setup closure
  trace       \* steps taken, <<kind, arg>>

vars == <<debug, config, order, pc, plugins, setupHook, windows, window,
          devtools, console, evalResult, runResult, loop, status, diag,
          runCalls, hookCalls, trace>>

Range(s) == {s[k] : k \in 1..Len(s)}

RECURSIVE Perms(_)
Perms(S) ==
  IF S = {} THEN {<<>>}
  ELSE UNION {{<<x>> \o p : p \in Perms(S \ {x})} : x \in S}

\* Variant of plugin with the retain predicate inverted.
pluginInverted(store, p) == Append(SelectSeq(store, LAMBDA q : q = p), p)

\* Builder::plugin: a plugin replaces a stored plugin of the same name and is
\* appended to the store.
plugin(store, p) == Append(SelectSeq(store, LAMBDA q : q # p), p)

\* Variant of DebugAssertions: the attribute negated.
CfgNotDebug == ~debug

\* Variant of DebugAssertions: the attribute missing.
CfgAlways == TRUE

\* #[cfg(debug_assertions)]
DebugAssertions == debug

\* app.get_webview_window(label): Some(label) or None.
get_webview_window(label) == IF label \in windows THEN label ELSE "None"

\* Variant of Script without the protocol line.
ScriptTwoLines(win, protocol) ==
  << [win |-> win, args |-> <<"Tauri v2 setup complete">>],
     [win |-> win, args |-> <<"Drag and drop should be enabled">>] >>

\* The three console.log statements of the injected script.
Script(win, protocol) ==
  << [win |-> win, args |-> <<"Tauri v2 setup complete">>],
     [win |-> win, args |-> <<"Drag and drop should be enabled">>],
     [win |-> win, args |-> <<"Protocol:", protocol>>] >>

InitCommon ==
  /\ debug \in BOOLEAN
  /\ config \in SUBSET Labels
  /\ pc = "plugins"
  /\ plugins = <<>>
  /\ setupHook = "none"
  /\ windows = {}
  /\ window = "None"
  /\ devtools = <<>>
  /\ console = <<>>
  /\ evalResult = "none"
  /\ runResult = "none"
  /\ loop = "none"
  /\ status = "none"
  /\ diag = ""
  /\ runCalls = 0
  /\ hookCalls = 0
  /\ trace = <<>>

Init == InitCommon /\ order = CodeOrder

\* The same chain with the five registration calls written in any order.
InitOrder == InitCommon /\ order \in Perms(Plugins)

\* One .plugin(...) call of the chain.
RegisterPlugin ==
  /\ pc = "plugins"
  /\ Len(trace) < Len(order)
  /\ LET p == order[Len(trace) + 1] IN
       /\ plugins' = plugin(plugins, p)
       /\ trace' = Append(trace, <<"plugin", p>>)
  /\ UNCHANGED <<debug, config, order, pc, setupHook, windows, window,
                 devtools, console, evalResult, runResult, loop, status,
                 diag, runCalls, hookCalls>>

\* .setup(|app| ...): the closure is stored, not run.
Setup ==
  /\ pc = "plugins"
  /\ Len(trace) = Len(order)
  /\ setupHook' = "installed"
  /\ pc' = "run"
  /\ UNCHANGED <<debug, config, order, plugins, windows, window, devtools,
                 console, evalResult, runResult, loop, status, diag,
                 runCalls, hookCalls, trace>>

\* .run(tauri::generate_context!()): control passes to the framework.
Run ==
  /\ pc = "run"
  /\ runCalls' = runCalls + 1
  /\ pc' = "starting"
  /\ UNCHANGED <<debug, config, order, plugins, setupHook, windows, window,
                 devtools, console, evalResult, runResult, loop, status,
                 diag, hookCalls, trace>>

\* The framework rejects startup: .run(...) returns Err.
StartupError ==
  /\ pc = "starting"
  /\ runResult' = "Err"
  /\ pc' = "expect"
  /\ UNCHANGED <<debug, config, order, plugins, setupHook, windows, window,
                 devtools, console, evalResult, loop, status, diag,
                 runCalls, hookCalls, trace>>

\* The framework builds the declared windows and invokes the setup closure.
InvokeSetup ==
  /\ pc = "starting"
  /\ setupHook = "installed"
  /\ windows' = config
  /\ setupHook' = "taken"
  /\ hookCalls' = hookCalls + 1
  /\ pc' = IF DebugAssertions THEN "dbg_resolve" ELSE "resolve"
  /\ UNCHANGED <<debug, config, order, plugins, window, devtools, console,
                 evalResult, runResult, loop, status, diag, runCalls, trace>>

\* Variant of Resolve that goes on with whatever the lookup returned.
ResolveLenient(at, next) ==
  /\ pc = at
  /\ LET w == get_webview_window(MainLabel) IN
       /\ pc' = next
       /\ window' = w
       /\ trace' = Append(trace, <<"resolve", w>>)
  /\ UNCHANGED <<debug, config, order, plugins, setupHook, windows, devtools,
                 console, evalResult, runResult, loop, status, diag,
                 runCalls, hookCalls>>

\* let window = app.get_webview_window("main").unwrap();
Resolve(at, next) ==
  /\ pc = at
  /\ LET w == get_webview_window(MainLabel) IN
       IF w = "None"
       THEN /\ pc' = "aborted"
            /\ status' = "abnormal"
            /\ diag' = UnwrapMsg
            /\ trace' = trace \o <<(<<"resolve", "None">>), (<<"abort", "unwrap">>)>>
            /\ UNCHANGED window
       ELSE /\ pc' = next
            /\ window' = w
            /\ trace' = Append(trace, <<"resolve", w>>)
            /\ UNCHANGED <<status, diag>>
  /\ UNCHANGED <<debug, config, order, plugins, setupHook, windows, devtools,
                 console, evalResult, runResult, loop, runCalls, hookCalls>>

\* Line 16, debug builds only.
DebugResolve == Resolve("dbg_resolve", "devtools")

\* Variant of OpenDevtools that leaves the hook from inside the debug block.
OpenDevtoolsReturn ==
  /\ pc = "devtools"
  /\ devtools' = Append(devtools, window)
  /\ trace' = Append(trace, <<"devtools", window>>)
  /\ pc' = "ret"
  /\ UNCHANGED <<debug, config, order, plugins, setupHook, windows, window,
                 console, evalResult, runResult, loop, status, diag,
                 runCalls, hookCalls>>

\* Variant of OpenDevtools that reuses the first binding of `window`.
OpenDevtoolsReuse ==
  /\ pc = "devtools"
  /\ devtools' = Append(devtools, window)
  /\ trace' = Append(trace, <<"devtools", window>>)
  /\ pc' = "eval"
  /\ UNCHANGED <<debug, config, order, plugins, setupHook, windows, window,
                 console, evalResult, runResult, loop, status, diag,
                 runCalls, hookCalls>>

\* window.open_devtools();
OpenDevtools ==
  /\ pc = "devtools"
  /\ devtools' = Append(devtools, window)
  /\ trace' = Append(trace, <<"devtools", window>>)
  /\ pc' = "resolve"
  /\ UNCHANGED <<debug, config, order, plugins, setupHook, windows, window,
                 console, evalResult, runResult, loop, status, diag,
                 runCalls, hookCalls>>

\* Line 21, every build.
SetupResolve == Resolve("resolve", "eval")

\* Variant of Eval that unwraps the Result.
EvalUnwrap ==
  /\ pc = "eval"
  /\ \E ok \in BOOLEAN, protocol \in Protocols :
       IF ok
       THEN /\ console' = console \o Script(window, protocol)
            /\ evalResult' = "Ok"
            /\ trace' = Append(trace, <<"eval", "Ok">>)
            /\ pc' = "ret"
            /\ UNCHANGED <<status, diag>>
       ELSE /\ console' = console
            /\ evalResult' = "Err"
            /\ trace' = trace \o <<(<<"eval", "Err">>), (<<"abort", "unwrap">>)>>
            /\ pc' = "aborted"
            /\ status' = "abnormal"
            /\ diag' = "called Result::unwrap() on an Err value"
  /\ UNCHANGED <<debug, config, order, plugins, setupHook, windows, window,
                 devtools, runResult, loop, runCalls, hookCalls>>

\* let _ = window.eval(script): the Result is dropped.
Eval ==
  /\ pc = "eval"
  /\ \E ok \in BOOLEAN, protocol \in Protocols :
       IF ok
       THEN /\ console' = console \o Script(window, protocol)
            /\ evalResult' = "Ok"
            /\ trace' = Append(trace, <<"eval", "Ok">>)
       ELSE /\ console' = console
            /\ evalResult' = "Err"
            /\ trace' = Append(trace, <<"eval", "Err">>)
  /\ pc' = "ret"
  /\ UNCHANGED <<debug, config, order, plugins, setupHook, windows, window,
                 devtools, runResult, loop, status, diag, runCalls,
                 hookCalls>>

\* Variant of HookReturn where .run(...) returns while the loop still runs.
HookReturnNonBlocking ==
  /\ pc = "ret"
  /\ trace' = Append(trace, <<"hook", "Ok">>)
  /\ loop' = "running"
  /\ runResult' = "Ok"
  /\ pc' = "expect"
  /\ UNCHANGED <<debug, config, order, plugins, setupHook, windows, window,
                 devtools, console, evalResult, status, diag, runCalls,
                 hookCalls>>

\* Ok(()): the hook returns and the run-loop enters normal operation.
HookReturn ==
  /\ pc = "ret"
  /\ trace' = Append(trace, <<"hook", "Ok">>)
  /\ loop' = "running"
  /\ pc' = "running"
  /\ UNCHANGED <<debug, config, order, plugins, setupHook, windows, window,
                 devtools, console, evalResult, runResult, status, diag,
                 runCalls, hookCalls>>

\* The application exits: the framework either ends the process itself or
\* returns Ok(()) from .run(...).
AppExit ==
  /\ pc = "running"
  /\ loop' = "stopped"
  /\ \/ /\ pc' = "exited"
        /\ status' = "success"
        /\ trace' = Append(trace, <<"exit", "success">>)
        /\ UNCHANGED runResult
     \/ /\ pc' = "expect"
        /\ runResult' = "Ok"
        /\ UNCHANGED <<status, trace>>
  /\ UNCHANGED <<debug, config, order, plugins, setupHook, windows, window,
                 devtools, console, evalResult, diag, runCalls, hookCalls>>

\* Variant of Expect that calls .run(...) again after an error.
ExpectRetry ==
  /\ pc = "expect"
  /\ IF runResult = "Err"
     THEN /\ pc' = "run"
          /\ runResult' = "none"
          /\ UNCHANGED <<status, diag, trace>>
     ELSE /\ pc' = "exited"
          /\ status' = "success"
          /\ trace' = Append(trace, <<"exit", "success">>)
          /\ UNCHANGED <<diag, runResult>>
  /\ UNCHANGED <<debug, config, order, plugins, setupHook, windows, window,
                 devtools, console, evalResult, loop, runCalls, hookCalls>>

\* .expect("error while running tauri application") and the end of main().
Expect ==
  /\ pc = "expect"
  /\ IF runResult = "Err"
     THEN /\ pc' = "aborted"
          /\ status' = "abnormal"
          /\ diag' = ExpectMsg
          /\ trace' = Append(trace, <<"abort", "expect">>)
     ELSE /\ pc' = "exited"
          /\ status' = "success"
          /\ trace' = Append(trace, <<"exit", "success">>)
          /\ UNCHANGED diag
  /\ UNCHANGED <<debug, config, order, plugins, setupHook, windows, window,
                 devtools, console, evalResult, runResult, loop, runCalls,
                 hookCalls>>

Next ==
  \/ RegisterPlugin
  \/ Setup
  \/ Run
  \/ StartupError
  \/ InvokeSetup
  \/ DebugResolve
  \/ OpenDevtools
  \/ SetupResolve
  \/ Eval
  \/ HookReturn
  \/ AppExit
  \/ Expect

Spec == Init /\ [][Next]_vars

SpecOrder == InitOrder /\ [][Next]_vars

TypeOK ==
  /\ debug \in BOOLEAN
  /\ config \subseteq Labels
  /\ pc \in {"plugins", "run", "starting", "dbg_resolve", "devtools",
             "resolve", "eval", "ret", "running", "expect", "exited",
             "aborted"}
  /\ setupHook \in {"none", "installed", "taken"}
  /\ windows \subseteq Labels
  /\ window \in Labels \cup {"None"}
  /\ evalResult \in {"none", "Ok", "Err"}
  /\ runResult \in {"none", "Ok", "Err"}
  /\ loop \in {"none", "running", "stopped"}
  /\ status \in {"none", "success", "abnormal"}

\* ---------------------------------------------------------------------
\* Properties
\* ---------------------------------------------------------------------

Has(e) == \E k \in 1..Len(trace) : trace[k] = e

IsPrefix(s, t) == Len(s) <= Len(t) /\ \A k \in 1..Len(s) : s[k] = t[k]

Kinds(s) == [k \in 1..Len(s) |-> s[k][1]]

\* The steps taken inside the setup closure.
HookSteps ==
  Kinds(SelectSeq(trace,
          LAMBDA e : e[1] \in {"resolve", "devtools", "eval", "hook"}))

\* What can be seen from outside: everything but window lookups and devtools.
Observable == SelectSeq(trace, LAMBDA e : e[1] \notin {"resolve", "devtools"})

Succeeded == pc \in {"running", "exited"} \/ (pc = "expect" /\ runResult = "Ok")

Ended == pc \in {"exited", "aborted"}

\* C1: when the registry holds no window "main" as the setup hook runs, the
\* hook can only be at its first lookup or the process has aborted with the
\* unwrap diagnostic, in debug and in release builds; the hook never returns
\* and the run-loop never enters normal operation.
C1_MissingMainAborts ==
  (hookCalls > 0 /\ MainLabel \notin windows) =>
    /\ loop = "none"
    /\ ~Has(<<"hook", "Ok">>)
    /\ evalResult = "none"
    /\ \/ pc = (IF debug THEN "dbg_resolve" ELSE "resolve") /\ status = "none"
       \/ /\ pc = "aborted"
          /\ status = "abnormal"
          /\ diag = UnwrapMsg
          /\ Has(<<"resolve", "None">>)

C1_Witness ==
  /\ debug
  /\ hookCalls = 1
  /\ MainLabel \notin windows
  /\ pc = "aborted"
  /\ diag = UnwrapMsg

\* C2: in a debug build with "main" in the registry, open_devtools has been
\* called exactly once, on "main", from the second lookup on to the end of
\* the run; it is never called twice and never on another window, and the
\* hook is invoked at most once.
C2_DebugOpensOnce ==
  /\ Len(devtools) <= 1
  /\ hookCalls <= 1
  /\ \A k \in 1..Len(devtools) : devtools[k] = MainLabel
  /\ (debug /\ MainLabel \in windows /\ pc \notin {"dbg_resolve", "devtools"})
       => devtools = <<MainLabel>>

C2_Witness ==
  /\ debug
  /\ MainLabel \in windows
  /\ pc = "exited"
  /\ devtools = <<MainLabel>>

\* C3: in a release build open_devtools is never called, whether "main"
\* exists or not and whether startup succeeds or fails.
C3_ReleaseNoDevtools ==
  (~debug) =>
    /\ devtools = <<>>
    /\ ~\E k \in 1..Len(trace) : trace[k][1] = "devtools"
    /\ pc \notin {"dbg_resolve", "devtools"}

C3_Witness ==
  /\ ~debug
  /\ MainLabel \in windows
  /\ loop = "running"
  /\ devtools = <<>>

\* The three entries the console of "main" is to receive.
DiagnosticEntries(protocol) ==
  << [win |-> MainLabel, args |-> <<"Tauri v2 setup complete">>],
     [win |-> MainLabel, args |-> <<"Drag and drop should be enabled">>],
     [win |-> MainLabel, args |-> <<"Protocol:", protocol>>] >>

C5_AllPluginsBeforeRun ==
  (runCalls > 0 \/ hookCalls > 0 \/ loop # "none") =>
    /\ Range(plugins) = Plugins
    /\ Len(plugins) = Cardinality(Plugins)
    /\ plugins = order

C5_Witness ==
  /\ order = <<"updater", "http", "dialog", "fs", "shell">>
  /\ loop = "running"
  /\ Range(plugins) = Plugins

\* C6: .run(...) hands Ok back to main() only after the application has
\* exited; while the run-loop runs main() is blocked in the call; a process
\* that ended either exited normally after the run-loop stopped or aborted
\* on a failed lookup of "main" or on a startup error.
C6_RunBlocksUntilExit ==
  /\ (runResult = "Ok") => loop = "stopped"
  /\ (loop = "running") =>
       pc = "running" /\ runResult = "none" /\ status = "none"
  /\ (status # "none") <=> Ended
  /\ (status = "success") =>
       pc = "exited" /\ loop = "stopped" /\ diag = ""
  /\ (status = "abnormal") =>
       /\ pc = "aborted"
       /\ loop = "none"
       /\ \/ diag = UnwrapMsg /\ Has(<<"resolve", "None">>)
          \/ diag = ExpectMsg /\ runResult = "Err"

C6_Witness ==
  /\ pc = "expect"
  /\ runResult = "Ok"
  /\ loop = "stopped"

\* C7: when .run(...) reports an error the process is at .expect or has
\* aborted with the expect message and abnormal status; .run(...) is called
\* at most once and the run-loop never runs after the error.
C7_StartupErrorAborts ==
  /\ runCalls <= 1
  /\ (runResult = "Err") =>
       /\ loop = "none"
       /\ hookCalls = 0
       /\ runCalls = 1
       /\ \/ pc = "expect" /\ status = "none"
          \/ pc = "aborted" /\ status = "abnormal" /\ diag = ExpectMsg

C7_Witness ==
  /\ runResult = "Err"
  /\ pc = "aborted"
  /\ status = "abnormal"
  /\ diag = ExpectMsg

\* The observable run under a given environment; it does not mention the
\* build configuration.
Expected(ord, cfg, startErr, ev) ==
  [k \in 1..Len(ord) |-> <<"plugin", ord[k]>>] \o
  (IF startErr THEN << <<"abort", "expect">> >>
   ELSE IF MainLabel \notin cfg THEN << <<"abort", "unwrap">> >>
   ELSE << <<"eval", ev>>, <<"hook", "Ok">>, <<"exit", "success">> >>)

FullHook ==
  IF debug THEN <<"resolve", "devtools", "resolve", "eval", "hook">>
  ELSE <<"resolve", "eval", "hook">>

\* C9: the steps inside the hook follow the order lookup, devtools, lookup,
\* script, return in debug builds and lookup, script, return in release
\* builds; the script is evaluated only right after a successful lookup of
\* "main", and in debug builds only after devtools were opened on it.
C9_HookOrder ==
  /\ IsPrefix(HookSteps, FullHook)
  /\ Succeeded => HookSteps = FullHook
  /\ \A k \in 1..Len(trace) :
       (trace[k][1] = "eval") =>
         /\ k > 1
         /\ trace[k - 1] = <<"resolve", MainLabel>>
         /\ debug => \E j \in 1..(k - 1) : trace[j] = <<"devtools", MainLabel>>
  /\ \A k \in 1..Len(trace) :
       (trace[k][1] = "devtools") =>
         k > 1 /\ trace[k - 1] = <<"resolve", MainLabel>>

C9_Witness ==
  /\ debug
  /\ loop = "running"
  /\ HookSteps = <<"resolve", "devtools", "resolve", "eval", "hook">>

\* C10: the outcome of the evaluation does not decide the outcome of the
\* hook: once the script was evaluated, with Ok or Err, the hook returns Ok
\* and the process does not abort; an abort inside the hook comes only from
\* a missing window "main".
C10_EvalResultDiscarded ==
  /\ (evalResult # "none") =>
       /\ pc \in {"ret", "running", "expect", "exited"}
       /\ status # "abnormal"
       /\ diag = ""
  /\ (hookCalls > 0 /\ MainLabel \in windows) => status # "abnormal"
  /\ (hookCalls > 0 /\ status = "abnormal") =>
       /\ diag = UnwrapMsg
       /\ MainLabel \notin windows
       /\ evalResult = "none"

C10_Witness ==
  /\ evalResult = "Err"
  /\ MainLabel \in windows
  /\ loop = "running"
  /\ Has(<<"hook", "Ok">>)
====
